---- MODULE Spec2Model ----
(***************************************************************************)
(* Model of jaxlib/gpu/solver.cc: the descriptor builders of the GPU       *)
(* solver bindings.  One caller issues builder calls one after another;    *)
(* each call runs through the statements of its builder: resolve the       *)
(* dtype, borrow a solver handle, create the Jacobi parameter object,      *)
(* issue the size query selected by element kind and batch count, pack the *)
(* descriptor and return.  A throw unwinds the locals constructed so far.  *)
(***************************************************************************)
EXTENDS Integers, Sequences, FiniteSets, TLC

VARIABLES backend, available, initial, pc, call, type, held, params, lwork,
          qcall, result, outcome, cnt, last

vars == <<backend, available, initial, pc, call, type, held, params, lwork,
          qcall, result, outcome, cnt, last>>

(* ---------------------------- bounds ---------------------------------- *)
MaxPool == 1
MaxDim == 2
MaxBatch == 2
MaxLwork == 2
MaxIndeterminate == 1

(* ------------------------ 32-bit arithmetic --------------------------- *)
MaxInt32 == (2 ^ 30 - 1) + 2 ^ 30
MinInt32 == (0 - MaxInt32) - 1

\* The value of (a * w) after the conversion chain size_t -> std::int64_t ->
\* int, for an element width w in {4, 8, 16}: the product modulo 2^32, read as
\* a two's complement int.  Computed on residues so that no intermediate
\* value leaves the 32-bit range.
MulToInt32(a, w) ==
  LET q == (2 ^ 30) \div (w \div 4)
      r == a % q
  IN  IF r >= q \div 2 THEN (r - q) * w ELSE r * w

\* The value of (x + y) modulo 2^32 read as an int, for x and y already in
\* the int range.
AddToInt32(x, y) ==
  IF x >= 0 /\ y >= 0 /\ x > MaxInt32 - y THEN (x + MinInt32) + (y + MinInt32)
  ELSE IF x < 0 /\ y < 0 /\ x < MinInt32 - y THEN (x - MinInt32) + (y - MinInt32)
  ELSE x + y

\* TRUE iff a * w is representable as an int, so that the conversion to the
\* int of the returned pair keeps the value.
MulFitsInt32(a, w) == a >= MinInt32 \div w /\ a <= MaxInt32 \div w

(* --------------------------- element kinds ---------------------------- *)
SolverTypes == {"F32", "F64", "C64", "C128"}
Unsupported == "Unsupported"

\* Mutant: the two complex widths exchanged in the table.
DtypeToSolverTypeComplexSwapped(kind, itemsize) ==
  CASE kind = "f" /\ itemsize = 4  -> "F32"
    [] kind = "f" /\ itemsize = 8  -> "F64"
    [] kind = "c" /\ itemsize = 8  -> "C128"
    [] kind = "c" /\ itemsize = 16 -> "C64"
    [] OTHER -> Unsupported

DtypeToSolverType(kind, itemsize) ==
  CASE kind = "f" /\ itemsize = 4  -> "F32"
    [] kind = "f" /\ itemsize = 8  -> "F64"
    [] kind = "c" /\ itemsize = 8  -> "C64"
    [] kind = "c" /\ itemsize = 16 -> "C128"
    [] OTHER -> Unsupported

\* sizeof(float), sizeof(double), sizeof(gpuComplex), sizeof(gpuDoubleComplex)
SizeOf(t) ==
  CASE t = "F32" -> 4 [] t = "F64" -> 8 [] t = "C64" -> 8 [] t = "C128" -> 16

\* sizeof(void*)
PointerWidth == 8

\* Mutant: the complex kinds call the real (symmetric / orthogonal) family.
EntryPointRealFamily(t, real, cplx, suffix) ==
  CASE t = "F32"  -> "S" \o real \o suffix
    [] t = "F64"  -> "D" \o real \o suffix
    [] t = "C64"  -> "C" \o real \o suffix
    [] t = "C128" -> "Z" \o real \o suffix

\* The S/D/C/Z entry point of a query family; cplx names the complex family
\* where it differs from the real one (orgqr/ungqr, syevd/heevd, ...).
EntryPoint(t, real, cplx, suffix) ==
  CASE t = "F32"  -> "S" \o real \o suffix
    [] t = "F64"  -> "D" \o real \o suffix
    [] t = "C64"  -> "C" \o cplx \o suffix
    [] t = "C128" -> "Z" \o cplx \o suffix

FillMode(lower) == IF lower THEN "LOWER" ELSE "UPPER"

NoQuery == [fn |-> "none", args |-> <<>>]

(* ----------------------------- inputs --------------------------------- *)
Kinds == {"f", "c", "i"}
ItemSizes == {2, 4, 8, 16}
Dims == 1..MaxDim
\* A batch count that makes b * sizeof(void*) leave the int range.
BigBatch == 2 ^ 28
Batches == (0..MaxBatch) \cup {BigBatch}
\* Values a size query may write to lwork; the large one makes
\* lwork * sizeof(T) leave the int range for every element kind.
BigLwork == 2 ^ 29
LworkSet == (1..MaxLwork) \cup {BigLwork}
\* Values an int read before any write may show.
IndeterminateInts == 0..MaxIndeterminate

Builders == {"potrf", "getrf", "geqrf", "csrlsvqr", "orgqr", "syevd", "syevj",
             "gesvd", "gesvdj", "sytrd"}
\* Builders compiled only under JAX_GPU_CUDA.
CudaOnly == {"csrlsvqr", "gesvdj"}

Args(bld, kind, itemsize, lower, b, m, n, k, cuv, fm, econ, nnzA, reorder) ==
  [builder |-> bld, kind |-> kind, itemsize |-> itemsize, lower |-> lower,
   b |-> b, m |-> m, n |-> n, k |-> k, compute_uv |-> cuv,
   full_matrices |-> fm, econ |-> econ, nnzA |-> nnzA, reorder |-> reorder,
   tol |-> 0]

NoArgs == Args("none", "f", 4, FALSE, 1, 1, 1, 1, FALSE, FALSE, 0, 0, 0)

\* The argument lists of each builder; parameters a builder does not take
\* are held at a fixed value.
Calls ==
  UNION { 
    { Args(bld, kd, sz, lo, b, 1, n, 1, FALSE, FALSE, 0, 0, 0) :
        bld \in {"potrf", "syevd", "syevj", "sytrd"}, lo \in BOOLEAN,
        b \in Batches, n \in Dims } \cup
    { Args(bld, kd, sz, FALSE, b, m, n, 1, FALSE, FALSE, 0, 0, 0) :
        bld \in {"getrf", "geqrf"}, b \in Batches, m \in Dims, n \in Dims } \cup
    { Args("orgqr", kd, sz, FALSE, b, m, n, k, FALSE, FALSE, 0, 0, 0) :
        b \in Batches, m \in Dims, n \in Dims, k \in 1..1 } \cup
    { Args("gesvd", kd, sz, FALSE, b, m, n, 1, cuv, fm, 0, 0, 0) :
        b \in Batches, m \in Dims, n \in Dims, cuv \in BOOLEAN,
        fm \in BOOLEAN } \cup
    { Args("gesvdj", kd, sz, FALSE, b, m, n, 1, cuv, FALSE, econ, 0, 0) :
        b \in Batches, m \in Dims, n \in Dims, cuv \in BOOLEAN,
        econ \in 0..1 } \cup
    { Args("csrlsvqr", kd, sz, FALSE, 1, 1, n, 1, FALSE, FALSE, 0, nnz, ro) :
        n \in Dims, nnz \in Dims, ro \in 0..1 }
    : kd \in Kinds, sz \in ItemSizes }

(* ------------------------ per-builder dispatch ------------------------ *)
Jacobi == {"syevj", "gesvdj"}
\* Mutant: the sparse-solve builder borrows a handle like the others.
UsesHandleAlways(c) == c.builder \in Builders

UsesHandle(c) == c.builder # "csrlsvqr"

\* jobu and jobvt of BuildGesvdDescriptor.
JobU(c) ==
  IF c.compute_uv THEN (IF c.full_matrices THEN "A" ELSE "S") ELSE "N"

\* Mutant: jobvt with the full and economy flags exchanged.
JobVTSwapped(c) ==
  IF c.compute_uv THEN (IF c.full_matrices THEN "S" ELSE "A") ELSE "N"

JobVT(c) ==
  IF c.compute_uv THEN (IF c.full_matrices THEN "A" ELSE "S") ELSE "N"

JobZ(c) == IF c.compute_uv THEN "VECTOR" ELSE "NOVECTOR"

PotrfQuery(be, c, t) ==
  IF c.b = 1
  THEN [fn |-> EntryPoint(t, "potrf", "potrf", "_bufferSize"),
        args |-> <<FillMode(c.lower), c.n, c.n>>]
  ELSE IF be = "cuda" THEN NoQuery
  ELSE [fn |-> EntryPoint(t, "potrf", "potrf", "Batched_bufferSize"),
        args |-> <<FillMode(c.lower), c.n, c.n, c.b>>]

GetrfQuery(c, t) ==
  [fn |-> EntryPoint(t, "getrf", "getrf", "_bufferSize"),
   args |-> <<c.m, c.n, c.m>>]

GeqrfQuery(c, t) ==
  [fn |-> EntryPoint(t, "geqrf", "geqrf", "_bufferSize"),
   args |-> <<c.m, c.n, c.m>>]

OrgqrQuery(c, t) ==
  [fn |-> EntryPoint(t, "orgqr", "ungqr", "_bufferSize"),
   args |-> <<c.m, c.n, c.k, c.m>>]

SyevdQuery(c, t) ==
  [fn |-> EntryPoint(t, "syevd", "heevd", "_bufferSize"),
   args |-> <<"VECTOR", FillMode(c.lower), c.n, c.n>>]

\* Mutant: the per-matrix entry point is kept for every b below 2.
SyevjQueryBatchedAboveOne(c, t) ==
  IF c.b > 1
  THEN [fn |-> EntryPoint(t, "syevj", "heevj", "Batched_bufferSize"),
        args |-> <<"VECTOR", FillMode(c.lower), c.n, c.n, c.b>>]
  ELSE [fn |-> EntryPoint(t, "syevj", "heevj", "_bufferSize"),
        args |-> <<"VECTOR", FillMode(c.lower), c.n, c.n>>]

SyevjQuery(c, t) ==
  IF c.b = 1
  THEN [fn |-> EntryPoint(t, "syevj", "heevj", "_bufferSize"),
        args |-> <<"VECTOR", FillMode(c.lower), c.n, c.n>>]
  ELSE [fn |-> EntryPoint(t, "syevj", "heevj", "Batched_bufferSize"),
        args |-> <<"VECTOR", FillMode(c.lower), c.n, c.n, c.b>>]

GesvdQuery(c, t) ==
  [fn |-> EntryPoint(t, "gesvd", "gesvd", "_bufferSize"),
   args |-> <<JobU(c), JobVT(c), c.m, c.n>>]

GesvdjQuery(c, t) ==
  IF c.b = 1
  THEN [fn |-> EntryPoint(t, "gesvdj", "gesvdj", "_bufferSize"),
        args |-> <<JobZ(c), c.econ, c.m, c.n, c.m, c.m, c.n>>]
  ELSE [fn |-> EntryPoint(t, "gesvdj", "gesvdj", "Batched_bufferSize"),
        args |-> <<JobZ(c), c.m, c.n, c.m, c.m, c.n, c.b>>]

SytrdQuery(c, t) ==
  [fn |-> EntryPoint(t, "sytrd", "hetrd", "_bufferSize"),
   args |-> <<FillMode(c.lower), c.n, c.n>>]

\* The size query the builder of call c issues for element kind t.
QueryOf(be, c, t) ==
  CASE c.builder = "potrf"  -> PotrfQuery(be, c, t)
    [] c.builder = "getrf"  -> GetrfQuery(c, t)
    [] c.builder = "geqrf"  -> GeqrfQuery(c, t)
    [] c.builder = "orgqr"  -> OrgqrQuery(c, t)
    [] c.builder = "syevd"  -> SyevdQuery(c, t)
    [] c.builder = "syevj"  -> SyevjQuery(c, t)
    [] c.builder = "gesvd"  -> GesvdQuery(c, t)
    [] c.builder = "gesvdj" -> GesvdjQuery(c, t)
    [] c.builder = "sytrd"  -> SytrdQuery(c, t)
    [] OTHER -> NoQuery

\* workspace_size of BuildPotrfDescriptor after its conversion to the int of
\* the returned pair; lw is the value the query wrote (unused when none ran).
PotrfWorkspace(be, c, t, lw) ==
  IF c.b = 1 THEN MulToInt32(lw, SizeOf(t))
  ELSE IF be = "cuda" THEN MulToInt32(c.b, PointerWidth)
  ELSE AddToInt32(MulToInt32(lw, SizeOf(t)), MulToInt32(c.b, PointerWidth))

\* Mutant: every builder converts lwork to bytes.
WorkspaceOfBytes(be, c, t, lw) ==
  IF c.builder = "potrf" THEN PotrfWorkspace(be, c, t, lw)
  ELSE MulToInt32(lw, SizeOf(t))

\* First component of the pair a builder returns.
WorkspaceOf(be, c, t, lw) ==
  IF c.builder = "potrf" THEN PotrfWorkspace(be, c, t, lw) ELSE lw

\* Mutant: LU and tridiagonal reduction pack their fields in another order.
DescriptorOfMisordered(c, t, lw) ==
  CASE c.builder = "potrf"    -> <<t, FillMode(c.lower), c.b, c.n, lw>>
    [] c.builder = "getrf"    -> <<t, c.b, c.n, c.m, lw>>
    [] c.builder = "geqrf"    -> <<t, c.b, c.m, c.n, lw>>
    [] c.builder = "csrlsvqr" -> <<t, c.n, c.nnzA, c.reorder, c.tol>>
    [] c.builder = "orgqr"    -> <<t, c.b, c.m, c.n, c.k, lw>>
    [] c.builder = "syevd"    -> <<t, FillMode(c.lower), c.b, c.n, lw>>
    [] c.builder = "syevj"    -> <<t, FillMode(c.lower), c.b, c.n, lw>>
    [] c.builder = "gesvd"    -> <<t, c.b, c.m, c.n, lw, JobU(c), JobVT(c)>>
    [] c.builder = "gesvdj"   -> <<t, c.b, c.m, c.n, lw, JobZ(c), c.econ>>
    [] c.builder = "sytrd"    -> <<t, FillMode(c.lower), c.n, c.b, c.n, lw>>

\* The descriptor record of each builder, fields in aggregate order.
DescriptorOf(c, t, lw) ==
  CASE c.builder = "potrf"    -> <<t, FillMode(c.lower), c.b, c.n, lw>>
    [] c.builder = "getrf"    -> <<t, c.b, c.m, c.n, lw>>
    [] c.builder = "geqrf"    -> <<t, c.b, c.m, c.n, lw>>
    [] c.builder = "csrlsvqr" -> <<t, c.n, c.nnzA, c.reorder, c.tol>>
    [] c.builder = "orgqr"    -> <<t, c.b, c.m, c.n, c.k, lw>>
    [] c.builder = "syevd"    -> <<t, FillMode(c.lower), c.b, c.n, lw>>
    [] c.builder = "syevj"    -> <<t, FillMode(c.lower), c.b, c.n, lw>>
    [] c.builder = "gesvd"    -> <<t, c.b, c.m, c.n, lw, JobU(c), JobVT(c)>>
    [] c.builder = "gesvdj"   -> <<t, c.b, c.m, c.n, lw, JobZ(c), c.econ>>
    [] c.builder = "sytrd"    -> <<t, FillMode(c.lower), c.b, c.n, c.n, lw>>

\* The bytes of a descriptor: its length, then its fields in order.
PackDescriptor(d) == <<Len(d)>> \o d

(* ------------------------------ state --------------------------------- *)
Unwritten == [written |-> FALSE, val |-> 0]
Written(v) == [written |-> TRUE, val |-> v]
NoResult == [ok |-> FALSE, ws |-> 0, desc |-> <<>>]
NoLast == [valid |-> FALSE, lwork |-> Unwritten, result |-> NoResult]
ZeroCnt == [borrow |-> 0, release |-> 0, create |-> 0, destroy |-> 0,
            query |-> 0, pack |-> 0]
Bump(f) == [cnt EXCEPT ![f] = @ + 1]

\* The pool hands out a handle while it has one; Borrow's status is an error
\* otherwise.
PoolCanLend == available > 0

\* The destructor of a borrowed Handle puts it back into the pool.
HandleReturn(av) == av + 1

Init ==
  /\ backend \in {"cuda", "hip"}
  /\ initial \in 0..MaxPool
  /\ available = initial
  /\ pc = "idle"
  /\ call = NoArgs
  /\ type = "none"
  /\ held = FALSE
  /\ params = "none"
  /\ lwork = Unwritten
  /\ qcall = NoQuery
  /\ result = NoResult
  /\ outcome = "none"
  /\ cnt = ZeroCnt
  /\ last = NoLast

\* Entry into a builder with argument list c: the locals of the new call are
\* fresh; lst is what the observer keeps of the previous call.
Enter(c, lst) ==
  /\ c.builder \in CudaOnly => backend = "cuda"
  /\ last' = lst
  /\ call' = c
  /\ pc' = "resolve"
  /\ type' = "none"
  /\ held' = FALSE
  /\ params' = "none"
  /\ lwork' = Unwritten
  /\ qcall' = NoQuery
  /\ result' = NoResult
  /\ outcome' = "running"
  /\ cnt' = ZeroCnt
  /\ UNCHANGED <<backend, available, initial>>

\* The caller calls a builder exposed by the module.
Call(c) ==
  /\ pc = "idle"
  /\ Enter(c, NoLast)

\* The caller calls the same builder again with the same arguments; the
\* observer keeps the query value and the result of a call that returned.
Repeat ==
  /\ pc = "done"
  /\ Enter(call, IF outcome = "ok"
                 THEN [valid |-> TRUE, lwork |-> lwork, result |-> result]
                 ELSE NoLast)

\* The caller drops the returned pair (or the exception); nothing of the
\* call remains but the state of the pool.
Discard ==
  /\ pc = "done"
  /\ pc' = "idle"
  /\ call' = NoArgs
  /\ type' = "none"
  /\ params' = "none"
  /\ lwork' = Unwritten
  /\ qcall' = NoQuery
  /\ result' = NoResult
  /\ outcome' = "none"
  /\ cnt' = ZeroCnt
  /\ last' = NoLast
  /\ UNCHANGED <<backend, available, initial, held>>

\* SolverType type = DtypeToSolverType(dtype);
ResolveOk ==
  /\ pc = "resolve"
  /\ DtypeToSolverType(call.kind, call.itemsize) # Unsupported
  /\ type' = DtypeToSolverType(call.kind, call.itemsize)
  /\ pc' = IF UsesHandle(call) THEN "borrow" ELSE "return"
  /\ UNCHANGED <<backend, available, initial, call, held, params, lwork,
                 qcall, result, outcome, cnt, last>>

ResolveThrow ==
  /\ pc = "resolve"
  /\ DtypeToSolverType(call.kind, call.itemsize) = Unsupported
  /\ outcome' = "UnsupportedDtype"
  /\ pc' = "done"
  /\ UNCHANGED <<backend, available, initial, call, type, held, params,
                 lwork, qcall, result, cnt, last>>

\* auto h = SolverHandlePool::Borrow(); JAX_THROW_IF_ERROR(h.status());
BorrowOk ==
  /\ pc = "borrow"
  /\ PoolCanLend
  /\ available' = available - 1
  /\ held' = TRUE
  /\ cnt' = Bump("borrow")
  /\ pc' = IF call.builder \in Jacobi THEN "create" ELSE "query"
  /\ UNCHANGED <<backend, initial, call, type, params, lwork, qcall, result,
                 outcome, last>>

BorrowThrow ==
  /\ pc = "borrow"
  /\ cnt' = Bump("borrow")
  /\ outcome' = "HandleFailure"
  /\ pc' = "done"
  /\ UNCHANGED <<backend, available, initial, call, type, held, params,
                 lwork, qcall, result, last>>

\* JAX_THROW_IF_ERROR(JAX_AS_STATUS(gpusolverDnCreateSyevjInfo(&params)));
\* followed by the construction of params_cleanup.
CreateInfoOk ==
  /\ pc = "create"
  /\ params' = "live"
  /\ cnt' = Bump("create")
  /\ pc' = "query"
  /\ UNCHANGED <<backend, available, initial, call, type, held, lwork, qcall,
                 result, outcome, last>>

\* The creation fails: the throw leaves the builder before params_cleanup
\* exists, and h goes out of scope.
CreateInfoThrow ==
  /\ pc = "create"
  /\ params' = "failed"
  /\ cnt' = [cnt EXCEPT !.create = @ + 1, !.release = @ + 1]
  /\ available' = HandleReturn(available)
  /\ held' = FALSE
  /\ outcome' = "ParamFailure"
  /\ pc' = "done"
  /\ UNCHANGED <<backend, initial, call, type, lwork, qcall, result, last>>

\* The switch on type (and on b == 1 where the builder has one): the selected
\* _bufferSize entry point succeeds and writes lwork.
QueryOk ==
  /\ pc = "query"
  /\ QueryOf(backend, call, type).fn # "none"
  /\ \E v \in LworkSet : lwork' = Written(v)
  /\ qcall' = QueryOf(backend, call, type)
  /\ cnt' = Bump("query")
  /\ pc' = "return"
  /\ UNCHANGED <<backend, available, initial, call, type, held, params,
                 result, outcome, last>>

\* Mutant: the handle is held through a plain pointer, so the throw leaves
\* the builder without returning it.
QueryThrowLeak ==
  /\ pc = "query"
  /\ QueryOf(backend, call, type).fn # "none"
  /\ qcall' = QueryOf(backend, call, type)
  /\ params' = IF params = "live" THEN "destroyed" ELSE params
  /\ cnt' = [cnt EXCEPT !.query = @ + 1,
                        !.destroy = IF params = "live" THEN @ + 1 ELSE @]
  /\ held' = FALSE
  /\ outcome' = "QueryFailure"
  /\ pc' = "done"
  /\ UNCHANGED <<backend, available, initial, call, type, lwork, result, last>>

\* Mutant: no params_cleanup guard, so the throw skips the destroy.
QueryThrowNoDestroy ==
  /\ pc = "query"
  /\ QueryOf(backend, call, type).fn # "none"
  /\ qcall' = QueryOf(backend, call, type)
  /\ cnt' = [cnt EXCEPT !.query = @ + 1, !.release = @ + 1]
  /\ available' = HandleReturn(available)
  /\ held' = FALSE
  /\ outcome' = "QueryFailure"
  /\ pc' = "done"
  /\ UNCHANGED <<backend, initial, call, type, params, lwork, result, last>>

\* Mutant: the error status of the entry point is dropped and the builder
\* goes on to pack.
QueryThrowSwallowed ==
  /\ pc = "query"
  /\ QueryOf(backend, call, type).fn # "none"
  /\ qcall' = QueryOf(backend, call, type)
  /\ cnt' = Bump("query")
  /\ pc' = "return"
  /\ UNCHANGED <<backend, available, initial, call, type, held, params,
                 lwork, result, outcome, last>>

\* The selected entry point returns an error status: JAX_THROW_IF_ERROR
\* throws, params_cleanup (Jacobi builders) and h go out of scope.
QueryThrow ==
  /\ pc = "query"
  /\ QueryOf(backend, call, type).fn # "none"
  /\ qcall' = QueryOf(backend, call, type)
  /\ params' = IF params = "live" THEN "destroyed" ELSE params
  /\ cnt' = [cnt EXCEPT !.query = @ + 1, !.release = @ + 1,
                        !.destroy = IF params = "live" THEN @ + 1 ELSE @]
  /\ available' = HandleReturn(available)
  /\ held' = FALSE
  /\ outcome' = "QueryFailure"
  /\ pc' = "done"
  /\ UNCHANGED <<backend, initial, call, type, lwork, result, last>>

\* BuildPotrfDescriptor, b != 1 under JAX_GPU_CUDA: workspace_size is set from
\* b alone, no entry point is called and lwork is left unwritten.
NoQueryPath ==
  /\ pc = "query"
  /\ QueryOf(backend, call, type).fn = "none"
  /\ pc' = "return"
  /\ UNCHANGED <<backend, available, initial, call, type, held, params,
                 lwork, qcall, result, outcome, cnt, last>>

\* return {workspace_size or lwork, PackDescriptor(...)}; then the locals go
\* out of scope.  An lwork no query wrote is read with an indeterminate
\* value.
Return ==
  /\ pc = "return"
  /\ \E g \in (IF lwork.written \/ ~UsesHandle(call) THEN {lwork.val}
               ELSE IndeterminateInts) :
       result' = [ok |-> TRUE,
                  ws |-> IF UsesHandle(call)
                         THEN WorkspaceOf(backend, call, type, g) ELSE 0,
                  desc |-> PackDescriptor(DescriptorOf(call, type, g))]
  /\ params' = IF params = "live" THEN "destroyed" ELSE params
  /\ cnt' = [cnt EXCEPT !.pack = @ + 1,
                        !.release = IF held THEN @ + 1 ELSE @,
                        !.destroy = IF params = "live" THEN @ + 1 ELSE @]
  /\ available' = IF held THEN HandleReturn(available) ELSE available
  /\ held' = FALSE
  /\ outcome' = "ok"
  /\ pc' = "done"
  /\ UNCHANGED <<backend, initial, call, type, lwork, qcall, last>>

Next ==
  \/ pc = "idle" /\ \E c \in Calls : Call(c)
  \/ Repeat
  \/ Discard
  \/ ResolveOk
  \/ ResolveThrow
  \/ BorrowOk
  \/ BorrowThrow
  \/ CreateInfoOk
  \/ CreateInfoThrow
  \/ QueryOk
  \/ QueryThrow
  \/ NoQueryPath
  \/ Return

Spec == Init /\ [][Next]_vars

TypeOK ==
  /\ backend \in {"cuda", "hip"}
  /\ available \in 0..MaxPool
  /\ pc \in {"idle", "resolve", "borrow", "create", "query", "return", "done"}
  /\ held \in BOOLEAN
  /\ params \in {"none", "live", "failed", "destroyed"}
  /\ outcome \in {"none", "running", "ok", "UnsupportedDtype",
                  "HandleFailure", "ParamFailure", "QueryFailure"}

(* ============================ properties ============================== *)
Finished == pc = "done"
Succeeded == pc = "done" /\ outcome = "ok"
Failures == {"UnsupportedDtype", "HandleFailure", "ParamFailure",
             "QueryFailure"}

\* C1: whatever the outcome of a builder call, the handle it borrowed is back
\* in the pool when the call has returned or thrown; between calls the pool's
\* available-handle count is the count before the first call.
C1_HandleReturned ==
  /\ pc \in {"idle", "done"} => (~held /\ available = initial)
  /\ Finished => cnt.release = (IF cnt.borrow = 1 /\ outcome # "HandleFailure"
                                THEN 1 ELSE 0)

\* A Jacobi eigendecomposition call whose size query failed after a borrow.
C1_Witness ==
  /\ Finished /\ outcome = "QueryFailure" /\ call.builder = "syevj"
  /\ cnt.borrow = 1 /\ cnt.release = 1 /\ available = initial

\* C2: in the Jacobi builders a parameter object that was created is
\* destroyed exactly once by the time the call has returned or thrown; a
\* failed creation is followed by no destroy and no size query.
C2_ParamsScoped ==
  /\ cnt.destroy <= cnt.create /\ cnt.destroy <= 1
  /\ cnt.create > 0 => call.builder \in Jacobi
  /\ Finished => params # "live"
  /\ (Finished /\ cnt.create = 1 /\ params # "failed") =>
       (params = "destroyed" /\ cnt.destroy = 1)
  /\ params = "failed" => (cnt.destroy = 0 /\ cnt.query = 0)

\* A Jacobi SVD call whose query failed after the object was created.
C2_Witness ==
  /\ Finished /\ outcome = "QueryFailure" /\ call.builder = "gesvdj"
  /\ cnt.create = 1 /\ cnt.destroy = 1

\* A Jacobi call whose creation failed.
C2_WitnessCreateFailed ==
  Finished /\ outcome = "ParamFailure" /\ cnt.destroy = 0

\* C3: two calls of a builder with the same arguments, the size query writing
\* the same value both times, return the same workspace size and the same
\* packed descriptor.
C3_Deterministic ==
  (Succeeded /\ last.valid /\ last.lwork = lwork) => result = last.result

\* C4 as stated: every builder that issues a size query returns lwork times
\* the byte width of the element kind.
C4_WorkspaceIsBytes ==
  (Succeeded /\ cnt.query = 1) =>
    /\ MulFitsInt32(lwork.val, SizeOf(type))
    /\ result.ws = lwork.val * SizeOf(type)

\* C4 amended: Cholesky returns lwork times the element width (plus b times
\* the pointer width on its batched path without CUDA), reduced modulo 2^32
\* to an int; every other builder that issues a size query returns lwork
\* itself, not multiplied by any width.
C4_WorkspaceAmended ==
  (Succeeded /\ cnt.query = 1) =>
    IF call.builder = "potrf"
    THEN IF call.b = 1
         THEN /\ result.ws = MulToInt32(lwork.val, SizeOf(type))
              /\ MulFitsInt32(lwork.val, SizeOf(type)) =>
                   result.ws = lwork.val * SizeOf(type)
         ELSE result.ws = AddToInt32(MulToInt32(lwork.val, SizeOf(type)),
                                     MulToInt32(call.b, PointerWidth))
    ELSE result.ws = lwork.val

\* An LU call on complex128 that returned lwork, not 16 * lwork.
C4_Witness ==
  /\ Succeeded /\ call.builder = "getrf" /\ type = "C128"
  /\ cnt.query = 1 /\ result.ws = lwork.val /\ lwork.val = 2

\* C5: the resolver maps ('f',4), ('f',8), ('c',8), ('c',16) to F32, F64,
\* C64, C128, fails for every other pair without yielding an element kind,
\* and leaves the handle pool as it was.
C5_Resolver ==
  pc \notin {"idle", "resolve"} =>
    LET k == call.kind
        s == call.itemsize
        supported == <<k, s>> \in {<<"f", 4>>, <<"f", 8>>, <<"c", 8>>,
                                   <<"c", 16>>}
    IN  /\ <<k, s>> = <<"f", 4>>  => type = "F32"
        /\ <<k, s>> = <<"f", 8>>  => type = "F64"
        /\ <<k, s>> = <<"c", 8>>  => type = "C64"
        /\ <<k, s>> = <<"c", 16>> => type = "C128"
        /\ ~supported => (type = "none" /\ outcome = "UnsupportedDtype"
                          /\ pc = "done" /\ ~result.ok)
        /\ (pc = "borrow" \/ outcome = "UnsupportedDtype") =>
             (available = initial /\ cnt.borrow = 0 /\ cnt.release = 0)

\* A call with a 16-byte float dtype was rejected.
C5_Witness ==
  /\ Finished /\ outcome = "UnsupportedDtype"
  /\ call.kind = "f" /\ call.itemsize = 16

\* C6: under CUDA, BuildPotrfDescriptor with b > 1 returns exactly
\* b * sizeof(void*) and issues no size query.
C6_BatchedPotrfSize ==
  (Succeeded /\ backend = "cuda" /\ call.builder = "potrf" /\ call.b > 1) =>
    /\ cnt.query = 0
    /\ MulFitsInt32(call.b, PointerWidth)
    /\ result.ws = call.b * PointerWidth

\* C7: BuildGesvdDescriptor passes to the size query and stores in the
\* descriptor the same two job flags, equal to each other: 'A' for full
\* matrices, 'S' for economy, 'N' when compute_uv is false.
C7_GesvdJobFlags ==
  call.builder = "gesvd" =>
    LET want == CASE ~call.compute_uv -> "N"
                  [] call.compute_uv /\ call.full_matrices -> "A"
                  [] call.compute_uv /\ ~call.full_matrices -> "S"
    IN  /\ cnt.query = 1 => (qcall.args[1] = want /\ qcall.args[2] = want)
        /\ Succeeded => (result.desc[7] = want /\ result.desc[8] = want)

\* An economy SVD call that returned.
C7_Witness ==
  /\ Succeeded /\ call.builder = "gesvd"
  /\ call.compute_uv /\ ~call.full_matrices
  /\ result.desc[7] = "S" /\ qcall.args[2] = "S"

\* C8: a call ends either with a (size, descriptor) pair after every step
\* succeeded or with an error and no result; it borrows, creates and queries
\* at most once each and never packs after a failed step.
C8_AllOrNothing ==
  /\ cnt.borrow <= 1 /\ cnt.create <= 1 /\ cnt.query <= 1 /\ cnt.pack <= 1
  /\ ~Finished => (~result.ok /\ cnt.pack = 0)
  /\ Finished => outcome \in Failures \cup {"ok"}
  /\ (Finished /\ outcome \in Failures) => (result = NoResult /\ cnt.pack = 0)
  /\ Succeeded =>
       /\ result.ok /\ cnt.pack = 1
       /\ type \in SolverTypes
       /\ UsesHandle(call) => (cnt.borrow = 1 /\ cnt.release = 1)
       /\ call.builder \in Jacobi => (cnt.create = 1 /\ cnt.destroy = 1)
       /\ cnt.query = 1 => lwork.written

\* A Jacobi call that failed at its size query: one borrow, one creation,
\* one query, nothing packed.
C8_Witness ==
  /\ Finished /\ outcome = "QueryFailure"
  /\ cnt.borrow = 1 /\ cnt.create = 1 /\ cnt.query = 1 /\ cnt.pack = 0
  /\ result = NoResult

\* C9: a returned descriptor holds the resolved kind, the caller's batch and
\* shape, the derived fill mode, and the lwork the query wrote: Cholesky
\* packs {kind, uplo, b, n, lwork}, LU packs {kind, b, m, n, lwork} after a
\* query with lda = m, tridiagonal reduction packs n in both dimensions.
C9_DescriptorFields ==
  Succeeded =>
    LET d == result.desc
        kind == CASE <<call.kind, call.itemsize>> = <<"f", 4>> -> "F32"
                  [] <<call.kind, call.itemsize>> = <<"f", 8>> -> "F64"
                  [] <<call.kind, call.itemsize>> = <<"c", 8>> -> "C64"
                  [] OTHER -> "C128"
        uplo == IF call.lower THEN "LOWER" ELSE "UPPER"
    IN  /\ d[2] = kind
        /\ call.builder = "potrf" =>
             /\ Len(d) = 6
             /\ d[3] = uplo /\ d[4] = call.b /\ d[5] = call.n
             /\ cnt.query = 1 => d[6] = lwork.val
        /\ call.builder = "getrf" =>
             /\ Len(d) = 6
             /\ d[3] = call.b /\ d[4] = call.m /\ d[5] = call.n
             /\ d[6] = lwork.val
             /\ qcall.args[3] = call.m
        /\ call.builder = "sytrd" =>
             /\ Len(d) = 7
             /\ d[3] = uplo /\ d[4] = call.b
             /\ d[5] = call.n /\ d[6] = call.n /\ d[7] = lwork.val

\* A batched LU call with m # n that returned.
C9_Witness ==
  /\ Succeeded /\ call.builder = "getrf" /\ type = "C64"
  /\ call.b = 2 /\ call.m = 2 /\ call.n = 1
  /\ result.desc = <<5, "C64", 2, 2, 1, lwork.val>>

\* An upper Cholesky call with b = 1 that returned.
C9_WitnessPotrf ==
  /\ Succeeded /\ call.builder = "potrf" /\ ~call.lower /\ call.b = 1
  /\ result.desc[3] = "UPPER" /\ result.desc[6] = lwork.val

\* C10: the element kind is resolved before any other resource is touched:
\* an unsupported dtype ends the call with no borrow, creation or query; a
\* failed borrow is followed by no creation and no query; the sparse-solve
\* builder never borrows a handle or issues a query.
C10_ResolveFirst ==
  /\ type \notin SolverTypes => cnt = ZeroCnt
  /\ outcome = "UnsupportedDtype" =>
       (cnt.borrow = 0 /\ cnt.create = 0 /\ cnt.query = 0)
  /\ outcome = "HandleFailure" => (cnt.create = 0 /\ cnt.query = 0)
  /\ (cnt.create > 0 \/ cnt.query > 0) => cnt.borrow = 1
  /\ call.builder = "csrlsvqr" =>
       (cnt.borrow = 0 /\ cnt.query = 0 /\ ~held /\ available = initial)

\* A sparse-solve call that returned a descriptor.
C10_Witness ==
  /\ Succeeded /\ call.builder = "csrlsvqr" /\ type = "F64"
  /\ cnt.borrow = 0 /\ cnt.query = 0 /\ cnt.pack = 1

\* A call whose borrow failed.
C10_WitnessBorrowFailed ==
  Finished /\ outcome = "HandleFailure" /\ cnt.borrow = 1 /\ cnt.query = 0

\* The switch of the call has been passed: a query was issued (and succeeded
\* or failed) or the branch without a query was taken.
Dispatched ==
  pc = "return" \/ Succeeded \/ (Finished /\ outcome = "QueryFailure")

BatchSensitive == {"potrf", "syevj", "gesvdj"}
BatchInsensitive == {"getrf", "geqrf", "orgqr", "syevd", "gesvd", "sytrd"}

\* Names of the per-matrix and of the batched entry point of a
\* batch-sensitive builder for element kind t.
FamilyReal(bld) == IF bld = "syevj" THEN "syevj" ELSE bld
FamilyCplx(bld) == IF bld = "syevj" THEN "heevj" ELSE bld
PerMatrixName(bld, t) ==
  EntryPoint(t, FamilyReal(bld), FamilyCplx(bld), "_bufferSize")
BatchedName(bld, t) ==
  EntryPoint(t, FamilyReal(bld), FamilyCplx(bld), "Batched_bufferSize")

TookPerMatrix ==
  cnt.query = 1 /\ qcall.fn = PerMatrixName(call.builder, type)
TookBatched ==
  \/ cnt.query = 1 /\ qcall.fn = BatchedName(call.builder, type)
  \/ cnt.query = 0 /\ call.builder = "potrf" /\ backend = "cuda"

\* In the builders whose batch is not size-relevant, the query issued is the
\* one any other batch count would have issued, and the size returned is the
\* lwork it wrote.
BatchIrrelevant ==
  (Dispatched /\ call.builder \in BatchInsensitive) =>
    /\ \A b2 \in Batches :
         QueryOf(backend, [call EXCEPT !.b = b2], type) = qcall
    /\ Succeeded => result.ws = lwork.val

\* C11 as stated: in Cholesky, Jacobi eigendecomposition and Jacobi SVD the
\* per-matrix query is used exactly when b = 1 and the batched path exactly
\* when b > 1; in the other builders the query and the returned size do not
\* depend on b.
C11_BatchedIffAboveOne ==
  /\ (Dispatched /\ call.builder \in BatchSensitive) =>
       /\ TookPerMatrix <=> call.b = 1
       /\ TookBatched <=> call.b > 1
  /\ BatchIrrelevant

\* C11 amended: the batched path is used exactly when b differs from 1, so
\* also for b = 0; the per-matrix query is used exactly when b = 1; in the
\* other builders the query and the returned size do not depend on b.
C11_BatchedIffNotOne ==
  /\ (Dispatched /\ call.builder \in BatchSensitive) =>
       /\ TookPerMatrix <=> call.b = 1
       /\ TookBatched <=> call.b # 1
       /\ TookPerMatrix # TookBatched
  /\ BatchIrrelevant

\* A Jacobi eigendecomposition call with b = 0 that took the batched query.
C11_Witness ==
  /\ Succeeded /\ call.builder = "syevj" /\ call.b = 0 /\ type = "F32"
  /\ qcall.fn = "SsyevjBatched_bufferSize" /\ qcall.args[5] = 0

\* A dense SVD call with b = 2 whose query carries m and n only.
C11_WitnessInsensitive ==
  /\ Succeeded /\ call.builder = "gesvd" /\ call.b = 2
  /\ Len(qcall.args) = 4 /\ result.ws = lwork.val

\* The entry points of Householder reconstruction, the two
\* eigendecompositions and tridiagonal reduction, by element kind.
RealComplexBuilders == {"orgqr", "syevd", "syevj", "sytrd"}
QueryStem(bld, t) ==
  CASE bld = "orgqr" /\ t = "F32"  -> "Sorgqr"
    [] bld = "orgqr" /\ t = "F64"  -> "Dorgqr"
    [] bld = "orgqr" /\ t = "C64"  -> "Cungqr"
    [] bld = "orgqr" /\ t = "C128" -> "Zungqr"
    [] bld = "syevd" /\ t = "F32"  -> "Ssyevd"
    [] bld = "syevd" /\ t = "F64"  -> "Dsyevd"
    [] bld = "syevd" /\ t = "C64"  -> "Cheevd"
    [] bld = "syevd" /\ t = "C128" -> "Zheevd"
    [] bld = "syevj" /\ t = "F32"  -> "Ssyevj"
    [] bld = "syevj" /\ t = "F64"  -> "Dsyevj"
    [] bld = "syevj" /\ t = "C64"  -> "Cheevj"
    [] bld = "syevj" /\ t = "C128" -> "Zheevj"
    [] bld = "sytrd" /\ t = "F32"  -> "Ssytrd"
    [] bld = "sytrd" /\ t = "F64"  -> "Dsytrd"
    [] bld = "sytrd" /\ t = "C64"  -> "Chetrd"
    [] bld = "sytrd" /\ t = "C128" -> "Zhetrd"

\* C12: in Householder reconstruction, both eigendecompositions and
\* tridiagonal reduction the switch on the element kind issues exactly one
\* size query per call, through the entry point of the resolved kind: the
\* real family in matching precision for F32 and F64, the complex (Hermitian
\* / unitary) family for C64 and C128; no kind passes the switch unqueried.
C12_QueryMatchesKind ==
  (Dispatched /\ call.builder \in RealComplexBuilders) =>
    /\ type \in SolverTypes
    /\ cnt.query = 1
    /\ qcall.fn \in {QueryStem(call.builder, type) \o "_bufferSize",
                     QueryStem(call.builder, type) \o "Batched_bufferSize"}
    /\ pc = "return" => lwork.written

\* A tridiagonal reduction on complex128 went through the Hermitian query.
C12_Witness ==
  /\ Succeeded /\ call.builder = "sytrd" /\ type = "C128"
  /\ cnt.query = 1 /\ qcall.fn = "Zhetrd_bufferSize"

\* A Householder reconstruction on float32 went through the orthogonal query.
C12_WitnessReal ==
  /\ Succeeded /\ call.builder = "orgqr" /\ type = "F32"
  /\ qcall.fn = "Sorgqr_bufferSize"

\* C13: the size BuildPotrfDescriptor returns is the exact byte count it
\* computed, lwork * element width for b = 1 and b * pointer width for b > 1
\* under CUDA, whatever int lwork and b are: the conversion of the 64-bit
\* workspace_size to the int of the returned pair never changes the value.
C13_NoNarrowing ==
  (Succeeded /\ call.builder = "potrf") =>
    /\ (call.b = 1) =>
         /\ MulFitsInt32(lwork.val, SizeOf(type))
         /\ result.ws = lwork.val * SizeOf(type)
    /\ (call.b > 1 /\ backend = "cuda") =>
         /\ MulFitsInt32(call.b, PointerWidth)
         /\ result.ws = call.b * PointerWidth
    /\ result.ws >= 0

====
